---- MODULE Spec2Model ----
(***************************************************************************)
(* Positioning engine of the kanban board: PositionManager                 *)
(* (src/src/utils/positioning.ts) and the card move handler                *)
(* (src/unnamed/part_002) over the in-memory store                         *)
(* (src/src/utils/errorHandler.ts, find/update).                           *)
(*                                                                         *)
(* Numbers.  A position is a JavaScript number.  The model keeps it as an  *)
(* integer count of units of 1/16000, so that 1 = 16000 units,             *)
(* 0.001 = 16 units, 0.0005 = 8 units and 1000 = 16000000 units.  On the   *)
(* values the model visits every sum, difference and comparison of the     *)
(* code is exact in this representation; a halving is exact iff its        *)
(* argument is even, and the specifications only apply a halving to even   *)
(* arguments (ExactHalving).                                               *)
(* An optional number (number | undefined) is a sequence: <<>> is          *)
(* undefined and <<v>> is the number v.                                    *)
(***************************************************************************)
EXTENDS Integers, Sequences, FiniteSets, TLC

VARIABLES
    previousPosition,   \* argument of the calculatePosition call under check
    nextPosition,       \* argument of the calculatePosition call under check
    calcResult,         \* its outcome
    items,              \* argument of the updatePositionsForMove call under check
    movedItemId,        \* argument of the updatePositionsForMove call under check
    targetPosition,     \* argument of the updatePositionsForMove call under check
    updates,            \* its outcome
    cards,              \* mockDB.cards: the stored cards, in insertion order
    moves,              \* number of move requests served so far
    rebalanced,         \* outcome of rebalancePositions(items)
    rebalancedAgain,    \* outcome of rebalancePositions on that outcome
    rebalanceNeeded,    \* outcome of detectRebalanceNeeded(items)
    response,           \* the response to the last request
    movedCard,          \* card of the last move request, as findById returned it
    boardLists,         \* mockDB.lists of the board lists are created on
    calls               \* the requests in flight, each at its await

vars == <<previousPosition, nextPosition, calcResult,
          items, movedItemId, targetPosition, updates, cards, moves,
          rebalanced, rebalancedAgain, rebalanceNeeded, response,
          movedCard, boardLists, calls>>

calcVars == <<previousPosition, nextPosition, calcResult>>
moveVars == <<items, movedItemId, targetPosition, updates>>
storeVars == <<cards, moves>>
rebalanceVars == <<rebalanced, rebalancedAgain, rebalanceNeeded>>
apiVars == <<boardLists, calls>>

----------------------------------------------------------------------------
(* Program constants, in units of 1/16000 *)

POSITION_GAP == 16000000

MIN_POSITION == 16000

REBALANCE_THRESHOLD == 16

----------------------------------------------------------------------------
(* Bounds of the model *)

MaxItems == 3

MaxMoves == 3

MaxNear == 2

MaxRequests == 2

----------------------------------------------------------------------------
(* Values and outcomes *)

Undefined == <<>>

Num(v) == <<v>>

\* JavaScript's !x on a number | undefined: undefined and 0 are falsy
Falsy(x) == x = Undefined \/ x[1] = 0

Max(a, b) == IF a >= b THEN a ELSE b

Half(x) == x \div 2

Return(v) == [kind |-> "return", value |-> v]

Throw(e) == [kind |-> "throw", error |-> e]

Pending == [kind |-> "pending"]

----------------------------------------------------------------------------
(* PositionManager *)

\* calculatePosition with the tail branch adding the wrong constant
calculatePositionTailMin(previous, next) ==
    IF Falsy(previous) /\ Falsy(next) THEN Return(POSITION_GAP)
    ELSE IF Falsy(previous) THEN Return(Max(Half(next[1]), MIN_POSITION))
    ELSE IF Falsy(next) THEN Return(previous[1] + MIN_POSITION)
    ELSE IF next[1] - previous[1] < REBALANCE_THRESHOLD
         THEN Throw("REBALANCE_REQUIRED")
         ELSE Return(Half(previous[1] + next[1]))

\* calculatePosition numbering the first item of a container from 0
calculatePositionFirstAtZero(previous, next) ==
    IF Falsy(previous) /\ Falsy(next) THEN Return(0)
    ELSE IF Falsy(previous) THEN Return(Max(Half(next[1]), MIN_POSITION))
    ELSE IF Falsy(next) THEN Return(previous[1] + POSITION_GAP)
    ELSE IF next[1] - previous[1] < REBALANCE_THRESHOLD
         THEN Throw("REBALANCE_REQUIRED")
         ELSE Return(Half(previous[1] + next[1]))

calculatePosition(previous, next) ==
    IF Falsy(previous) /\ Falsy(next) THEN Return(POSITION_GAP)
    ELSE IF Falsy(previous) THEN Return(Max(Half(next[1]), MIN_POSITION))
    ELSE IF Falsy(next) THEN Return(previous[1] + POSITION_GAP)
    ELSE IF next[1] - previous[1] < REBALANCE_THRESHOLD
         THEN Throw("REBALANCE_REQUIRED")
         ELSE Return(Half(previous[1] + next[1]))

\* the halvings calculatePosition performs on these arguments are exact
ExactHalving(previous, next) ==
    IF Falsy(next) THEN TRUE
    ELSE IF Falsy(previous) THEN next[1] % 2 = 0
    ELSE (previous[1] + next[1]) % 2 = 0

\* a sort that is not stable: an item goes before the items it ties with
RECURSIVE SortByPositionTiesReversed(_)
SortByPositionTiesReversed(s) ==
    IF Len(s) <= 1 THEN s
    ELSE LET init == SortByPositionTiesReversed(SubSeq(s, 1, Len(s) - 1))
             last == s[Len(s)]
             k == Cardinality({i \in 1..Len(init) : init[i].position < last.position})
         IN SubSeq(init, 1, k) \o <<last>> \o SubSeq(init, k + 1, Len(init))

\* Array.prototype.sort((a, b) => a.position - b.position): stable
RECURSIVE SortByPosition(_)
SortByPosition(s) ==
    IF Len(s) <= 1 THEN s
    ELSE LET init == SortByPosition(SubSeq(s, 1, Len(s) - 1))
             last == s[Len(s)]
             k == Cardinality({i \in 1..Len(init) : init[i].position <= last.position})
         IN SubSeq(init, 1, k) \o <<last>> \o SubSeq(init, k + 1, Len(init))

\* rebalancePositions numbering from 0: POSITION_GAP * index, index 0-based
rebalancePositionsFromZero(its) ==
    LET sortedItems == SortByPosition(its)
    IN [index \in 1..Len(sortedItems) |->
           [id |-> sortedItems[index].id, position |-> POSITION_GAP * (index - 1)]]

\* rebalancePositions without the sort of line 52
rebalancePositionsUnsorted(its) ==
    [index \in 1..Len(its) |->
        [id |-> its[index].id, position |-> POSITION_GAP * index]]

\* rebalancePositions with the comparator reversed (b.position - a.position)
rebalancePositionsDescending(its) ==
    LET sortedItems == SortByPosition(its)
        n == Len(sortedItems)
    IN [index \in 1..n |->
           [id |-> sortedItems[n + 1 - index].id, position |-> POSITION_GAP * index]]

\* rebalancePositions spacing the items by half the threshold instead of the gap
rebalancePositionsByThreshold(its) ==
    LET sortedItems == SortByPosition(its)
    IN [index \in 1..Len(sortedItems) |->
           [id |-> sortedItems[index].id,
            position |-> (REBALANCE_THRESHOLD \div 2) * index]]

rebalancePositions(its) ==
    LET sortedItems == SortByPosition(its)
    IN [index \in 1..Len(sortedItems) |->
           [id |-> sortedItems[index].id, position |-> POSITION_GAP * index]]

\* the other items without the sort of line 81
SortedOthersUnsorted(its, moved) ==
    SelectSeq(its, LAMBDA item : item.id # moved)

\* items.filter(item => item.id !== movedItemId), then sorted in place
SortedOthers(its, moved) ==
    SortByPosition(SelectSeq(its, LAMBDA item : item.id # moved))

\* the loop of lines 84-91: the length of the longest prefix below the target
InsertIndex(sortedOthers, target) ==
    Cardinality({i \in 1..Len(sortedOthers) :
                    \A j \in 1..i : sortedOthers[j].position < target})

\* sortedOthers[insertIndex - 1]?.position (0-based)
PrevOf(sortedOthers, insertIndex) ==
    IF insertIndex >= 1 THEN Num(sortedOthers[insertIndex].position) ELSE Undefined

\* sortedOthers[insertIndex]?.position (0-based)
NextOf(sortedOthers, insertIndex) ==
    IF insertIndex + 1 <= Len(sortedOthers)
    THEN Num(sortedOthers[insertIndex + 1].position) ELSE Undefined

\* updatePositionsForMove without the check of lines 76-78
updatePositionsForMoveUnchecked(its, moved, target) ==
    LET otherItems == SortedOthers(its, moved)
        insertIndex == InsertIndex(otherItems, target)
        r == calculatePosition(PrevOf(otherItems, insertIndex),
                               NextOf(otherItems, insertIndex))
    IN IF r.kind = "return"
       THEN Return(<<[id |-> moved, position |-> r.value]>>)
       ELSE Return(rebalancePositions(
                Append(otherItems, [id |-> moved, position |-> target])))

\* updatePositionsForMove renumbering the container on every move
updatePositionsForMoveAlwaysRebalance(its, moved, target) ==
    LET found == SelectSeq(its, LAMBDA item : item.id = moved)
    IN IF found = <<>> THEN Throw("Item not found")
       ELSE Return(rebalancePositions(
                Append(SortedOthers(its, moved), [id |-> moved, position |-> target])))

updatePositionsForMove(its, moved, target) ==
    LET found == SelectSeq(its, LAMBDA item : item.id = moved)
    IN IF found = <<>> THEN Throw("Item not found")
       ELSE LET movedItem == found[1]
                otherItems == SortedOthers(its, moved)
                insertIndex == InsertIndex(otherItems, target)
                r == calculatePosition(PrevOf(otherItems, insertIndex),
                                       NextOf(otherItems, insertIndex))
            IN IF r.kind = "return"
               THEN Return(<<[id |-> moved, position |-> r.value]>>)
               ELSE Return(rebalancePositions(
                        Append(otherItems, [id |-> movedItem.id, position |-> target])))

----------------------------------------------------------------------------
(* PositionValidator *)

\* typeof position === 'number' && position >= MIN_POSITION && isFinite(position);
\* every number of the model is finite
validatePosition(position) == position >= MIN_POSITION

validatePositionOrder(its) ==
    \A i \in 2..Len(its) : ~(its[i].position <= its[i - 1].position)

\* detectRebalanceNeeded scanning the input array as it comes, without the sort
detectRebalanceNeededUnsorted(its) ==
    \E i \in 2..Len(its) :
        its[i].position - its[i - 1].position < REBALANCE_THRESHOLD

detectRebalanceNeeded(its) ==
    LET sorted == SortByPosition(its)
    IN \E i \in 2..Len(sorted) :
           sorted[i].position - sorted[i - 1].position < REBALANCE_THRESHOLD

----------------------------------------------------------------------------
(* The store (mockDB.cards) and the move handler *)

\* find(CARDS_COLLECTION, { listId, archived: false, id: { $ne: cardId } })
FindOthers(db, listId, cardId) ==
    SelectSeq(db, LAMBDA c : c.listId = listId /\ c.id # cardId)

\* findById(CARDS_COLLECTION, cardId): the first match, or none
FindById(db, cardId) == SelectSeq(db, LAMBDA c : c.id = cardId)

\* update(CARDS_COLLECTION, id, { position }): rewrites the first match
update(db, id, position) ==
    LET hits == {i \in 1..Len(db) : db[i].id = id}
    IN IF hits = {} THEN db
       ELSE LET itemIndex == CHOOSE i \in hits : \A j \in hits : i <= j
            IN [db EXCEPT ![itemIndex].position = position]

\* for (const posUpdate of updates) await update(...)
RECURSIVE ApplyUpdates(_, _)
ApplyUpdates(db, ups) ==
    IF ups = <<>> THEN db
    ELSE ApplyUpdates(update(db, ups[1].id, ups[1].position), Tail(ups))

PositionItems(cs) == [i \in 1..Len(cs) |-> [id |-> cs[i].id, position |-> cs[i].position]]

\* the database after updatePositionInSameList(card, target)
updatePositionInSameList(db, card, target) ==
    LET otherCards == FindOthers(db, card.listId, card.id)
        allCards == PositionItems(Append(otherCards, card))
        r == updatePositionsForMove(allCards, card.id, target)
    IN IF r.kind = "return" THEN ApplyUpdates(db, r.value)
       ELSE IF r.error = "REBALANCE_REQUIRED"
            THEN ApplyUpdates(db, rebalancePositions(allCards))
            ELSE db

\* the updates updatePositionInSameList(card, target) applies one by one,
\* computed from the cards find returned (lines 212-243)
MoveUpdates(db, card, target) ==
    LET otherCards == FindOthers(db, card.listId, card.id)
        allCards == PositionItems(Append(otherCards, card))
        r == updatePositionsForMove(allCards, card.id, target)
    IN IF r.kind = "return" THEN r.value
       ELSE IF r.error = "REBALANCE_REQUIRED" THEN rebalancePositions(allCards)
       ELSE <<>>

\* CardValidation.move: ValidationUtils.validatePosition(data.position)
ValidMovePosition(position) == position >= 0

\* the number 1 in the units of the model (POSITION_GAP is 1000)
One == POSITION_GAP \div 1000

\* mockDB.lists: two lists of one board, one list of another board
lists ==
    << [id |-> "listA", boardId |-> "board1"],
       [id |-> "listB", boardId |-> "board1"],
       [id |-> "listC", boardId |-> "board2"] >>

\* findById(LISTS_COLLECTION, listId): the first match, or none
FindListById(listId) == SelectSeq(lists, LAMBDA l : l.id = listId)

\* find(CARDS_COLLECTION, { listId, archived: false })
FindInList(db, listId) == SelectSeq(db, LAMBDA c : c.listId = listId)

\* sortedCards[index]?.position for a JavaScript number used as array index:
\* an element only when the number is an integer within the array
CardAt(sortedCards, index) ==
    IF index % One = 0 /\ 0 <= index /\ index < Len(sortedCards) * One
    THEN Num(sortedCards[index \div One + 1].position)
    ELSE Undefined

\* update(CARDS_COLLECTION, card.id, { listId, position }): rewrites the first match
updateListAndPosition(db, id, listId, position) ==
    LET hits == {i \in 1..Len(db) : db[i].id = id}
    IN IF hits = {} THEN db
       ELSE LET itemIndex == CHOOSE i \in hits : \A j \in hits : i <= j
            IN [db EXCEPT ![itemIndex].listId = listId,
                          ![itemIndex].position = position]

\* the position moveCardBetweenLists computes (lines 257-278), or the error
\* calculatePosition throws
TransferPosition(db, targetListId, target) ==
    LET targetListCards == FindInList(db, targetListId)
        sortedCards == SortByPosition(targetListCards)
    IN IF Len(targetListCards) = 0 THEN Return(POSITION_GAP)
       ELSE IF target <= 0
            THEN Return(Max(Half(sortedCards[1].position), MIN_POSITION))
       ELSE IF target >= Len(sortedCards) * One
            THEN Return(sortedCards[Len(sortedCards)].position + POSITION_GAP)
       ELSE calculatePosition(CardAt(sortedCards, target - One),
                              CardAt(sortedCards, target))

\* the halvings of TransferPosition are exact
ExactTransfer(db, targetListId, target) ==
    LET sortedCards == SortByPosition(FindInList(db, targetListId))
    IN IF Len(sortedCards) = 0 THEN TRUE
       ELSE IF target <= 0 THEN sortedCards[1].position % 2 = 0
       ELSE IF target >= Len(sortedCards) * One THEN TRUE
       ELSE ExactHalving(CardAt(sortedCards, target - One), CardAt(sortedCards, target))

\* moveCardBetweenLists closing the gap the card leaves: the source list is
\* renumbered after the card has left it
moveCardBetweenListsRenumbering(db, card, targetListId, target) ==
    LET r == TransferPosition(db, targetListId, target)
    IN IF r.kind = "return"
       THEN Return(ApplyUpdates(
                updateListAndPosition(db, card.id, targetListId, r.value),
                rebalancePositions(PositionItems(FindOthers(db, card.listId, card.id)))))
       ELSE r

\* moveCardBetweenLists(card, targetListId, targetPosition): the database
\* after the call, or the error that leaves it
moveCardBetweenLists(db, card, targetListId, target) ==
    LET r == TransferPosition(db, targetListId, target)
    IN IF r.kind = "return"
       THEN Return(updateListAndPosition(db, card.id, targetListId, r.value))
       ELSE r

\* res.status(200).json(response)
Ok == [kind |-> "response", status |-> 200, code |-> "OK", cause |-> "none"]

\* handleApiError on an ApiError: its status code and error code
ApiError(status, code) ==
    [kind |-> "response", status |-> status, code |-> code, cause |-> code]

\* handleApiError on any other Error: 500, 'Internal server error'
InternalError(message) ==
    [kind |-> "response", status |-> 500, code |-> "INTERNAL_SERVER_ERROR",
     cause |-> message]

\* the move handler writing the new listId of the card before the position is
\* computed: a transfer that fails has already left the source list
MoveHandlerListFirst(db, cardId, targetListId, position) ==
    IF targetListId = ""
         THEN [db |-> db, res |-> ApiError(400, "VALIDATION_ERROR"), card |-> <<>>]
    ELSE IF ~ValidMovePosition(position)
         THEN [db |-> db, res |-> ApiError(400, "VALIDATION_ERROR"), card |-> <<>>]
    ELSE IF FindById(db, cardId) = <<>>
         THEN [db |-> db, res |-> ApiError(404, "NOT_FOUND"), card |-> <<>>]
    ELSE LET card == FindById(db, cardId)[1]
             sourceList == FindListById(card.listId)
             targetList == FindListById(targetListId)
         IN IF sourceList = <<>> \/ targetList = <<>>
                 THEN [db |-> db, res |-> ApiError(404, "NOT_FOUND"), card |-> <<card>>]
            ELSE IF sourceList[1].boardId # targetList[1].boardId
                 THEN [db |-> db, res |-> ApiError(400, "VALIDATION_ERROR"),
                       card |-> <<card>>]
            ELSE IF card.listId = targetListId
                 THEN [db |-> updatePositionInSameList(db, card, position),
                       res |-> Ok, card |-> <<card>>]
            ELSE LET r == moveCardBetweenLists(db, card, targetListId, position)
                 IN IF r.kind = "return"
                    THEN [db |-> r.value, res |-> Ok, card |-> <<card>>]
                    ELSE [db |-> updateListAndPosition(db, card.id, targetListId,
                                                       card.position),
                          res |-> InternalError(r.error), card |-> <<card>>]

\* withErrorHandling(withAuth(handler)) for POST /api/cards/:id/move by a
\* user who is the author of every board: the database after the request,
\* the response, and the card findById returned (none when it was not reached)
MoveHandler(db, cardId, targetListId, position) ==
    IF targetListId = ""
         THEN [db |-> db, res |-> ApiError(400, "VALIDATION_ERROR"), card |-> <<>>]
    ELSE IF ~ValidMovePosition(position)
         THEN [db |-> db, res |-> ApiError(400, "VALIDATION_ERROR"), card |-> <<>>]
    ELSE IF FindById(db, cardId) = <<>>
         THEN [db |-> db, res |-> ApiError(404, "NOT_FOUND"), card |-> <<>>]
    ELSE LET card == FindById(db, cardId)[1]
             sourceList == FindListById(card.listId)
             targetList == FindListById(targetListId)
         IN IF sourceList = <<>> \/ targetList = <<>>
                 THEN [db |-> db, res |-> ApiError(404, "NOT_FOUND"), card |-> <<card>>]
            ELSE IF sourceList[1].boardId # targetList[1].boardId
                 THEN [db |-> db, res |-> ApiError(400, "VALIDATION_ERROR"),
                       card |-> <<card>>]
            ELSE IF card.listId = targetListId
                 THEN [db |-> updatePositionInSameList(db, card, position),
                       res |-> Ok, card |-> <<card>>]
            ELSE LET r == moveCardBetweenLists(db, card, targetListId, position)
                 IN IF r.kind = "return"
                    THEN [db |-> r.value, res |-> Ok, card |-> <<card>>]
                    ELSE [db |-> db, res |-> InternalError(r.error), card |-> <<card>>]

----------------------------------------------------------------------------
(* Creation of cards and lists *)

\* Math.max(...existing.map(c => c.position), 0)
MaxPosition(existing) ==
    LET ps == {existing[i].position : i \in 1..Len(existing)} \cup {0}
    IN CHOOSE m \in ps : \A p \in ps : p <= m

\* sortedCards.findIndex(c => c.position > position), 0-based; -1 when none
FindIndexAbove(sorted, position) ==
    LET above == {i \in 1..Len(sorted) : sorted[i].position > position}
    IN IF above = {} THEN -1
       ELSE (CHOOSE i \in above : \A j \in above : i <= j) - 1

\* the position createCard and createList store, or the error
\* calculatePosition throws; position is the optional position of the request
CreatePosition(existing, position) ==
    IF position = Undefined
    THEN Return(MaxPosition(existing) + POSITION_GAP)
    ELSE LET sorted == SortByPosition(existing)
             insertIndex == FindIndexAbove(sorted, position[1])
         IN IF insertIndex > 0
            THEN calculatePosition(Num(sorted[insertIndex].position),
                                   Num(sorted[insertIndex + 1].position))
            ELSE Return(position[1])

\* the halvings of CreatePosition are exact
ExactCreate(existing, position) ==
    IF position = Undefined THEN TRUE
    ELSE LET sorted == SortByPosition(existing)
             insertIndex == FindIndexAbove(sorted, position[1])
         IN IF insertIndex > 0
            THEN ExactHalving(Num(sorted[insertIndex].position),
                              Num(sorted[insertIndex + 1].position))
            ELSE TRUE

\* res.status(201).json(response)
Created == [kind |-> "response", status |-> 201, code |-> "CREATED", cause |-> "none"]

\* CardValidation.create / ListValidation.create on a request with a valid
\* title: the position, when given, passes ValidationUtils.validatePosition
ValidCreatePosition(position) ==
    position = Undefined \/ ValidMovePosition(position[1])

\* withErrorHandling(withAuth(handler)) for POST /api/lists/:id/cards by a
\* user who may access the board: the cards after the request and the response
CreateCardHandler(db, listId, position) ==
    IF FindListById(listId) = <<>>
         THEN [db |-> db, res |-> ApiError(404, "NOT_FOUND")]
    ELSE IF ~ValidCreatePosition(position)
         THEN [db |-> db, res |-> ApiError(400, "VALIDATION_ERROR")]
    ELSE LET r == CreatePosition(FindInList(db, listId), position)
         IN IF r.kind = "return"
            THEN [db |-> Append(db, [id |-> Len(db) + 1, listId |-> listId,
                                     position |-> r.value]),
                  res |-> Created]
            ELSE [db |-> db, res |-> InternalError(r.error)]

\* withErrorHandling(withAuth(handler)) for POST /api/boards/:id/lists on the
\* board of boardLists: the lists after the request and the response
CreateListHandler(ls, position) ==
    IF ~ValidCreatePosition(position)
         THEN [db |-> ls, res |-> ApiError(400, "VALIDATION_ERROR")]
    ELSE LET r == CreatePosition(ls, position)
         IN IF r.kind = "return"
            THEN [db |-> Append(ls, [id |-> Len(ls) + 1, position |-> r.value]),
                  res |-> Created]
            ELSE [db |-> ls, res |-> InternalError(r.error)]

\* the neighbours updatePositionsForMove hands to calculatePosition
SlotPrev(its, moved, target) ==
    PrevOf(SortedOthers(its, moved), InsertIndex(SortedOthers(its, moved), target))

SlotNext(its, moved, target) ==
    NextOf(SortedOthers(its, moved), InsertIndex(SortedOthers(its, moved), target))

----------------------------------------------------------------------------
(* Input domains *)

\* 0.0005, half the rebalance threshold
Fine == REBALANCE_THRESHOLD \div 2

Near(a) == {a + k * Fine : k \in 0..MaxNear}

CalcValues ==
    UNION {Near(a) : a \in {-POSITION_GAP, -MIN_POSITION, -(MaxNear * Fine), 0,
                            MIN_POSITION \div 2, MIN_POSITION, 2 * MIN_POSITION,
                            POSITION_GAP}}

OptionalNumbers == {Undefined} \cup {Num(v) : v \in CalcValues}

ItemIds == 1..MaxItems

ItemPositions == {0, Fine, MIN_POSITION, 2 * MIN_POSITION,
                  POSITION_GAP, POSITION_GAP + Fine, 2 * POSITION_GAP}

TargetPositions == ItemPositions \cup {Fine, POSITION_GAP + Fine \div 2, 3 * POSITION_GAP}

\* item i of the array has id i; ids are unique
ItemLists ==
    UNION {[1..n -> ItemPositions] : n \in 0..MaxItems}

AsItems(ps) == [i \in 1..Len(ps) |-> [id |-> i, position |-> ps[i]]]

ListIds == {"listA", "listB"}

\* the requests of the move handler: an id of no card, a list of another
\* board, an id of no list, an empty id, a negative position
RequestCardIds == ItemIds \cup {0}

RequestListIds == ListIds \cup {"listC", "listX", ""}

\* the number Infinity, which a JSON body carries as 1e999: the model keeps it
\* as a number above every finite number it visits; the handler only
\* compares it
Infinity == 128 * POSITION_GAP

\* as list index: before the head, 0, fractions, 1, 2, beyond the tail,
\* Infinity
RequestPositions == {-One, 0, Fine, One, One + One \div 2, 2 * One,
                     POSITION_GAP + Fine, 3 * POSITION_GAP, Infinity}

----------------------------------------------------------------------------
(* Specification of calculatePosition as a pure function *)

IdleMove ==
    /\ items = <<>>
    /\ movedItemId = 1
    /\ targetPosition = 0
    /\ updates = Pending

IdleCalc ==
    /\ previousPosition = Undefined
    /\ nextPosition = Undefined
    /\ calcResult = Pending

IdleStore ==
    /\ cards = <<>>
    /\ moves = 0

IdleRebalance ==
    /\ rebalanced = Pending
    /\ rebalancedAgain = Pending
    /\ rebalanceNeeded = Pending

IdleResponse ==
    /\ response = Pending
    /\ movedCard = <<>>

IdleApi ==
    /\ boardLists = <<>>
    /\ calls = <<>>

InitCalc ==
    /\ previousPosition \in OptionalNumbers
    /\ nextPosition \in OptionalNumbers
    /\ ExactHalving(previousPosition, nextPosition)
    /\ calcResult = Pending
    /\ IdleMove
    /\ IdleStore
    /\ IdleRebalance
    /\ IdleResponse
    /\ IdleApi

CallCalculatePosition ==
    /\ calcResult = Pending
    /\ calcResult' = calculatePosition(previousPosition, nextPosition)
    /\ UNCHANGED <<previousPosition, nextPosition, moveVars, storeVars, rebalanceVars, response, movedCard, apiVars>>

NextCalc == CallCalculatePosition

SpecCalc == InitCalc /\ [][NextCalc]_vars

----------------------------------------------------------------------------
(* Specification of updatePositionsForMove as a pure function *)

InitResolve ==
    /\ \E ps \in ItemLists : items = AsItems(ps)
    /\ movedItemId \in ItemIds
    /\ targetPosition \in TargetPositions
    /\ ExactHalving(SlotPrev(items, movedItemId, targetPosition),
                    SlotNext(items, movedItemId, targetPosition))
    /\ updates = Pending
    /\ IdleCalc
    /\ IdleStore
    /\ IdleRebalance
    /\ IdleResponse
    /\ IdleApi

CallUpdatePositionsForMove ==
    /\ updates = Pending
    /\ updates' = updatePositionsForMove(items, movedItemId, targetPosition)
    /\ UNCHANGED <<items, movedItemId, targetPosition, calcVars, storeVars, rebalanceVars, response, movedCard, apiVars>>

NextResolve == CallUpdatePositionsForMove

SpecResolve == InitResolve /\ [][NextResolve]_vars

----------------------------------------------------------------------------
(* Specification of rebalancePositions and detectRebalanceNeeded as pure
   functions *)

InitRebalance ==
    /\ \E ps \in ItemLists : items = AsItems(ps)
    /\ movedItemId = 1
    /\ targetPosition = 0
    /\ updates = Pending
    /\ IdleRebalance
    /\ IdleCalc
    /\ IdleStore
    /\ IdleResponse
    /\ IdleApi

CallRebalancePositions ==
    /\ rebalanced = Pending
    /\ rebalanced' = Return(rebalancePositions(items))
    /\ UNCHANGED <<calcVars, moveVars, storeVars, rebalancedAgain, rebalanceNeeded, response, movedCard, apiVars>>

CallRebalancePositionsAgain ==
    /\ rebalanced.kind = "return"
    /\ rebalancedAgain = Pending
    /\ rebalancedAgain' = Return(rebalancePositions(rebalanced.value))
    /\ UNCHANGED <<calcVars, moveVars, storeVars, rebalanced, rebalanceNeeded, response, movedCard, apiVars>>

CallDetectRebalanceNeeded ==
    /\ rebalanceNeeded = Pending
    /\ rebalanceNeeded' = Return(detectRebalanceNeeded(items))
    /\ UNCHANGED <<calcVars, moveVars, storeVars, rebalanced, rebalancedAgain, response, movedCard, apiVars>>

NextRebalance ==
    \/ CallRebalancePositions
    \/ CallRebalancePositionsAgain
    \/ CallDetectRebalanceNeeded

SpecRebalance == InitRebalance /\ [][NextRebalance]_vars

----------------------------------------------------------------------------
(* Specification of serialized moves within a list, over the store *)

ListOf(db, listId) == SelectSeq(db, LAMBDA c : c.listId = listId)

DistinctPositions(cs) ==
    \A i, j \in 1..Len(cs) : i # j => cs[i].position # cs[j].position

InitMoves ==
    /\ \E ps \in [1..MaxItems -> ItemPositions], ls \in [1..MaxItems -> ListIds] :
          cards = [i \in 1..MaxItems |-> [id |-> i, listId |-> ls[i], position |-> ps[i]]]
    /\ \A l \in ListIds : DistinctPositions(ListOf(cards, l))
    /\ moves = 0
    /\ IdleCalc
    /\ IdleMove
    /\ IdleRebalance
    /\ IdleResponse
    /\ IdleApi

\* POST /api/cards/:id/move with targetListId = card.listId, served alone:
\* validation, lookup of the card, then updatePositionInSameList.  Every list
\* of the model exists and lies on one board the caller may access, so the
\* remaining lookups of the handler succeed; a request that fails a check
\* changes nothing and is not a step.
MoveInSameList(cardId, position) ==
    /\ moves < MaxMoves
    /\ ValidMovePosition(position)
    /\ FindById(cards, cardId) # <<>>
    /\ LET card == FindById(cards, cardId)[1]
           its == PositionItems(Append(FindOthers(cards, card.listId, card.id), card))
       IN /\ ExactHalving(SlotPrev(its, card.id, position), SlotNext(its, card.id, position))
          /\ cards' = updatePositionInSameList(cards, card, position)
    /\ moves' = moves + 1
    /\ UNCHANGED <<calcVars, moveVars, rebalanceVars, response, movedCard, apiVars>>

NextMoves == \E cardId \in ItemIds, position \in TargetPositions : MoveInSameList(cardId, position)

SpecMoves == InitMoves /\ [][NextMoves]_vars

Spec == SpecMoves

----------------------------------------------------------------------------
(* Specification of the move handler, same-list and cross-list, requests
   served one at a time *)

\* positions of the stored cards: 0, 1, 1000, 1000.0005
StoredPositions == {0, MIN_POSITION, POSITION_GAP, POSITION_GAP + Fine}

\* the store as seeded: cards were inserted in the order of their positions
\* (a move is what brings the two orders apart)
InitHandler ==
    /\ \E ps \in [1..MaxItems -> StoredPositions], ls \in [1..MaxItems -> ListIds] :
          /\ \A i \in 2..MaxItems : ps[i - 1] <= ps[i]
          /\ cards = [i \in 1..MaxItems |-> [id |-> i, listId |-> ls[i], position |-> ps[i]]]
    /\ \A l \in ListIds : DistinctPositions(ListOf(cards, l))
    /\ moves = 0
    /\ IdleCalc
    /\ IdleMove
    /\ IdleRebalance
    /\ IdleResponse
    /\ IdleApi

\* the halvings of the request are exact
ExactRequest(db, cardId, targetListId, position) ==
    IF FindById(db, cardId) = <<>> THEN TRUE
    ELSE LET card == FindById(db, cardId)[1]
             its == PositionItems(Append(FindOthers(db, card.listId, card.id), card))
         IN IF card.listId = targetListId
            THEN ExactHalving(SlotPrev(its, card.id, position),
                              SlotNext(its, card.id, position))
            ELSE ExactTransfer(db, targetListId, position)

MoveCard(cardId, targetListId, position) ==
    /\ moves < MaxRequests
    /\ ExactRequest(cards, cardId, targetListId, position)
    /\ LET out == MoveHandler(cards, cardId, targetListId, position)
       IN /\ cards' = out.db
          /\ response' = out.res
          /\ movedCard' = out.card
    /\ moves' = moves + 1
    /\ UNCHANGED <<calcVars, moveVars, rebalanceVars, apiVars>>

\* the requests served: every card to every list of the board at every
\* position that passes validation, and one request for each way the handler
\* rejects (no targetListId, negative position, no such card, no such list,
\* list of another board)
Requests ==
    {[cardId |-> c, targetListId |-> l, position |-> p] :
        c \in ItemIds, l \in ListIds, p \in RequestPositions \ {-One}}
    \cup {[cardId |-> 1, targetListId |-> "", position |-> 0],
          [cardId |-> 1, targetListId |-> "listA", position |-> -One],
          [cardId |-> 0, targetListId |-> "listA", position |-> 0],
          [cardId |-> 1, targetListId |-> "listX", position |-> 0],
          [cardId |-> 1, targetListId |-> "listC", position |-> 0]}

NextHandler ==
    \E r \in Requests : MoveCard(r.cardId, r.targetListId, r.position)

SpecHandler == InitHandler /\ [][NextHandler]_vars

----------------------------------------------------------------------------
(* Specification of the API over a store that starts empty: creation of
   cards and lists and moves of cards, requests served one at a time *)

\* the optional position of a create request: none, -1, 0, 1000, 1000.0005
CreatePositions ==
    {Undefined} \cup {Num(v) : v \in {-One, 0, POSITION_GAP, POSITION_GAP + Fine}}

\* the list of a create request: a list of the board or an id of no list
CreateListIds == ListIds \cup {"listX"}

\* the position of a move request: the head, index 1, beyond the tail
ApiMovePositions == {0, One, 3 * POSITION_GAP}

InitApi ==
    /\ cards = <<>>
    /\ moves = 0
    /\ IdleCalc
    /\ IdleMove
    /\ IdleRebalance
    /\ IdleResponse
    /\ IdleApi

\* POST /api/lists/:id/cards
CreateCard(listId, position) ==
    /\ Len(cards) + Len(boardLists) < MaxItems
    /\ ExactCreate(FindInList(cards, listId), position)
    /\ LET out == CreateCardHandler(cards, listId, position)
       IN /\ cards' = out.db
          /\ response' = out.res
    /\ UNCHANGED <<calcVars, moveVars, rebalanceVars, moves, movedCard, boardLists, calls>>

\* POST /api/boards/:id/lists
CreateList(position) ==
    /\ Len(cards) + Len(boardLists) < MaxItems
    /\ ExactCreate(boardLists, position)
    /\ LET out == CreateListHandler(boardLists, position)
       IN /\ boardLists' = out.db
          /\ response' = out.res
    /\ UNCHANGED <<calcVars, moveVars, rebalanceVars, storeVars, movedCard, calls>>

NextApi ==
    \/ \E listId \in CreateListIds, position \in CreatePositions :
           CreateCard(listId, position)
    \/ \E position \in CreatePositions : CreateList(position)
    \/ \E cardId \in ItemIds, targetListId \in ListIds, position \in ApiMovePositions :
           MoveCard(cardId, targetListId, position)

SpecApi == InitApi /\ [][NextApi]_vars

----------------------------------------------------------------------------
(* Specification of two move requests within a list served concurrently:
   the handler of a request runs up to its next await, then the handler of
   either request goes on.  The awaits of the handler between the lookup of
   the card and the call of updatePositionInSameList read lists and boards
   only and are one step with the lookup. *)

\* the two requests in flight
Callers == {"first", "second"}

\* positions of the stored cards: 1000, 1000.0005, 2000
ConcurrentPositions == {POSITION_GAP, POSITION_GAP + Fine, 2 * POSITION_GAP}

\* targets of the requests: the head, between 1000 and 1000.0005, the tail
ConcurrentTargets == {0, POSITION_GAP + Fine \div 2, 3 * POSITION_GAP}

\* a request that has not run yet
Arrived(cardId, position) ==
    [pc |-> "start", cardId |-> cardId, position |-> position,
     card |-> <<>>, pending |-> <<>>, total |-> 0]

InitConcurrent ==
    /\ \E ps \in [1..MaxItems -> ConcurrentPositions], ls \in [1..MaxItems -> ListIds] :
          cards = [i \in 1..MaxItems |-> [id |-> i, listId |-> ls[i], position |-> ps[i]]]
    /\ \A l \in ListIds : DistinctPositions(ListOf(cards, l))
    /\ \E ids \in [Callers -> ItemIds], ts \in [Callers -> ConcurrentTargets] :
          calls = [p \in Callers |-> Arrived(ids[p], ts[p])]
    /\ moves = 0
    /\ boardLists = <<>>
    /\ IdleCalc
    /\ IdleMove
    /\ IdleRebalance
    /\ IdleResponse

\* handler, lines 143-187: validation, const card = await findById(...), the
\* lookups of the lists and of the board
ReadCard(p) ==
    /\ calls[p].pc = "start"
    /\ calls' = [calls EXCEPT ![p].pc = IF FindById(cards, calls[p].cardId) = <<>>
                                        THEN "done" ELSE "found",
                              ![p].card = FindById(cards, calls[p].cardId)]
    /\ UNCHANGED <<calcVars, moveVars, rebalanceVars, storeVars, response, movedCard,
                   boardLists>>

\* updatePositionInSameList, lines 212-223 and 233-236: const otherCards =
\* await find(...), then the updates computed from these cards
ReadOthers(p) ==
    /\ calls[p].pc = "found"
    /\ LET card == calls[p].card[1]
           its == PositionItems(Append(FindOthers(cards, card.listId, card.id), card))
           ups == MoveUpdates(cards, card, calls[p].position)
       IN /\ ExactHalving(SlotPrev(its, card.id, calls[p].position),
                          SlotNext(its, card.id, calls[p].position))
          /\ calls' = [calls EXCEPT ![p].pc = "write",
                                    ![p].pending = ups,
                                    ![p].total = Len(ups)]
    /\ UNCHANGED <<calcVars, moveVars, rebalanceVars, storeVars, response, movedCard,
                   boardLists>>

\* one turn of the loops of lines 226-231 and 238-243: await update(...);
\* after the last one the handler answers
WriteNext(p) ==
    /\ calls[p].pc = "write"
    /\ LET posUpdate == Head(calls[p].pending)
       IN cards' = update(cards, posUpdate.id, posUpdate.position)
    /\ calls' = [calls EXCEPT ![p].pending = Tail(calls[p].pending),
                              ![p].pc = IF Len(calls[p].pending) = 1
                                        THEN "done" ELSE "write"]
    /\ response' = IF Len(calls[p].pending) = 1 THEN Ok ELSE response
    /\ UNCHANGED <<calcVars, moveVars, rebalanceVars, moves, movedCard, boardLists>>

NextConcurrent ==
    \E p \in Callers : ReadCard(p) \/ ReadOthers(p) \/ WriteNext(p)

SpecConcurrent == InitConcurrent /\ [][NextConcurrent]_vars

----------------------------------------------------------------------------
(* Claims about calculatePosition (SpecCalc) *)

CalcDone == calcResult.kind # "pending"

BothPresent == previousPosition # Undefined /\ nextPosition # Undefined

\* C1: for previous < next with next - previous >= REBALANCE_THRESHOLD,
\* calculatePosition returns a value strictly between previous and next,
\* also when previous or next is 0 or negative.
C1_StrictlyBetween ==
    (/\ CalcDone
     /\ BothPresent
     /\ previousPosition[1] < nextPosition[1]
     /\ nextPosition[1] - previousPosition[1] >= REBALANCE_THRESHOLD)
    => /\ calcResult.kind = "return"
       /\ previousPosition[1] < calcResult.value
       /\ calcResult.value < nextPosition[1]

\* C2: for previous < next with next - previous < REBALANCE_THRESHOLD,
\* calculatePosition returns no position and fails with REBALANCE_REQUIRED.
C2_FailsBelowThreshold ==
    (/\ CalcDone
     /\ BothPresent
     /\ previousPosition[1] < nextPosition[1]
     /\ nextPosition[1] - previousPosition[1] < REBALANCE_THRESHOLD)
    => calcResult = Throw("REBALANCE_REQUIRED")

\* C8: with only next present, calculatePosition returns a position strictly
\* less than next or signals REBALANCE_REQUIRED; it never returns a value
\* greater than or equal to next.
C8_HeadBelowNext ==
    (/\ CalcDone
     /\ previousPosition = Undefined
     /\ nextPosition # Undefined)
    => \/ calcResult = Throw("REBALANCE_REQUIRED")
       \/ /\ calcResult.kind = "return"
          /\ calcResult.value < nextPosition[1]

\* C9: for every next with previous absent, calculatePosition(undefined, next)
\* returns max(next / 2, MIN_POSITION).
C9_HeadIsMaxHalfMin ==
    (/\ CalcDone
     /\ previousPosition = Undefined
     /\ nextPosition # Undefined)
    => calcResult = Return(IF 2 * MIN_POSITION >= nextPosition[1]
                           THEN MIN_POSITION ELSE nextPosition[1] \div 2)

\* C10: with next absent, calculatePosition returns previous + POSITION_GAP
\* for every previous, and POSITION_GAP when previous is absent too.
C10_TailAddsGap ==
    (CalcDone /\ nextPosition = Undefined)
    => /\ calcResult.kind = "return"
       /\ previousPosition = Undefined => calcResult.value = POSITION_GAP
       /\ previousPosition # Undefined =>
              calcResult.value - previousPosition[1] = POSITION_GAP

C10_Witness ==
    /\ CalcDone
    /\ nextPosition = Undefined
    /\ previousPosition = Num(POSITION_GAP + Fine)
    /\ calcResult = Return(2 * POSITION_GAP + Fine)

----------------------------------------------------------------------------
(* Claims about updatePositionsForMove (SpecResolve) *)

ResolveDone == updates.kind # "pending"

MovedPresent == \E i \in 1..Len(items) : items[i].id = movedItemId

Others == {i \in 1..Len(items) : items[i].id # movedItemId}

\* the position the returned update list gives to the item with this id
NewPositionOf(id) ==
    LET k == CHOOSE k \in 1..Len(updates.value) : updates.value[k].id = id
    IN updates.value[k].position

\* the call took the rebalance fallback: calculatePosition threw
FallbackTaken ==
    /\ ResolveDone
    /\ MovedPresent
    /\ calculatePosition(SlotPrev(items, movedItemId, targetPosition),
                         SlotNext(items, movedItemId, targetPosition)).kind = "throw"

\* the two neighbours of the slot exist and are closer than the threshold
NeighboursTooClose ==
    LET p == SlotPrev(items, movedItemId, targetPosition)
        n == SlotNext(items, movedItemId, targetPosition)
    IN /\ p # Undefined
       /\ n # Undefined
       /\ n[1] - p[1] < REBALANCE_THRESHOLD

\* C4: when a single update is returned, the moved item's new position is
\* above every other item below the target and below every other item at or
\* above the target, for pairwise distinct input positions.
C4_SingleUpdateInSlot ==
    (/\ ResolveDone
     /\ DistinctPositions(items)
     /\ updates.kind = "return"
     /\ Len(updates.value) = 1)
    => \A i \in Others :
          /\ items[i].position < targetPosition =>
                 updates.value[1].position > items[i].position
          /\ items[i].position >= targetPosition =>
                 updates.value[1].position < items[i].position

\* C5: updatePositionsForMove never fails with REBALANCE_REQUIRED when the
\* moved item is present; when the two neighbours of the slot are closer than
\* REBALANCE_THRESHOLD it returns the rebalanced positions.
C5_RebalanceNeverEscapes ==
    (ResolveDone /\ MovedPresent)
    => /\ updates.kind = "return"
       /\ NeighboursTooClose =>
              /\ Len(updates.value) = Len(items)
              /\ \A k \in 1..Len(updates.value) :
                     updates.value[k].position = k * POSITION_GAP

\* C6: when the rebalance fallback is taken, the update list holds every item
\* exactly once, the moved one included, at POSITION_GAP, 2*POSITION_GAP, ...,
\* n*POSITION_GAP, and the other items keep their relative order.
C6_FallbackRenumbersAll ==
    FallbackTaken
    => /\ updates.kind = "return"
       /\ Len(updates.value) = Len(items)
       /\ \A i \in 1..Len(items) :
              Cardinality({k \in 1..Len(updates.value) :
                              updates.value[k].id = items[i].id}) = 1
       /\ \A k \in 1..Len(updates.value) :
              updates.value[k].position = k * POSITION_GAP
       /\ \A i, j \in Others :
              (\/ items[i].position < items[j].position
               \/ (items[i].position = items[j].position /\ i < j))
              => NewPositionOf(items[i].id) < NewPositionOf(items[j].id)

C6_Witness ==
    /\ FallbackTaken
    /\ Len(items) = 3
    /\ \E i, j \in Others : /\ items[i].position = POSITION_GAP
                           /\ items[j].position = POSITION_GAP + Fine
    /\ targetPosition = POSITION_GAP + Fine \div 2
    /\ NewPositionOf(movedItemId) = 2 * POSITION_GAP

\* C7: when the rebalance fallback is taken, the moved item sorts after every
\* other item below the target and before every other item at or above the
\* target, also when the target equals the position of an existing item.
C7_FallbackKeepsSlot ==
    (FallbackTaken /\ updates.kind = "return")
    => \A i \in Others :
          /\ items[i].position < targetPosition =>
                 NewPositionOf(movedItemId) > NewPositionOf(items[i].id)
          /\ items[i].position >= targetPosition =>
                 NewPositionOf(movedItemId) < NewPositionOf(items[i].id)

----------------------------------------------------------------------------
(* Claims about serialized moves over the store (SpecMoves) *)

\* C3: from pairwise distinct positions, after any sequence of serialized
\* moves within a list the positions of the list's cards stay pairwise
\* distinct.
C3_PositionsStayDistinct ==
    \A l \in ListIds : DistinctPositions(ListOf(cards, l))

----------------------------------------------------------------------------
(* Claims about rebalancePositions and detectRebalanceNeeded (SpecRebalance) *)

\* the position the input array gives to the item with this id
OldPositionOf(id) ==
    LET i == CHOOSE i \in 1..Len(items) : items[i].id = id
    IN items[i].position

\* the position rebalancePositions(items) gives to the item with this id
RebalancedPositionOf(id) ==
    LET k == CHOOSE k \in 1..Len(rebalanced.value) : rebalanced.value[k].id = id
    IN rebalanced.value[k].position

\* C11: rebalancePositions returns n items sorted by their old position with
\* position[i] = POSITION_GAP * (i + 1), so every adjacent gap is POSITION_GAP.
C11_RebalanceUniformGaps ==
    rebalanced.kind = "return"
    => LET out == rebalanced.value
       IN /\ Len(out) = Len(items)
          /\ \A k \in 1..Len(out) : out[k].position = POSITION_GAP * k
          /\ \A k \in 2..Len(out) :
                 /\ out[k].position - out[k - 1].position = POSITION_GAP
                 /\ OldPositionOf(out[k - 1].id) <= OldPositionOf(out[k].id)

C11_Witness ==
    /\ rebalanced.kind = "return"
    /\ Len(items) = 3
    /\ items[1].position > items[2].position
    /\ items[2].position > items[3].position
    /\ rebalanced.value[3] = [id |-> 1, position |-> 3 * POSITION_GAP]

\* C12: rebalancePositions keeps membership and relative order: the output
\* holds exactly the input ids, each once; a below b in the input stays below
\* it; items with equal positions keep their input array order.
C12_RebalanceKeepsOrder ==
    rebalanced.kind = "return"
    => LET out == rebalanced.value
       IN /\ \A i \in 1..Len(items) :
                 Cardinality({k \in 1..Len(out) : out[k].id = items[i].id}) = 1
          /\ \A k \in 1..Len(out) : \E i \in 1..Len(items) : items[i].id = out[k].id
          /\ \A i, j \in 1..Len(items) :
                 (\/ items[i].position < items[j].position
                  \/ (items[i].position = items[j].position /\ i < j))
                 => RebalancedPositionOf(items[i].id) < RebalancedPositionOf(items[j].id)

C12_Witness ==
    /\ rebalanced.kind = "return"
    /\ Len(items) = 3
    /\ items[1].position = items[3].position
    /\ items[2].position < items[1].position
    /\ RebalancedPositionOf(1) = 2 * POSITION_GAP
    /\ RebalancedPositionOf(3) = 3 * POSITION_GAP

\* C13: rebalancePositions is idempotent: applied to its own output it returns
\* that output (same ids, same positions, same order).
C13_RebalanceIdempotent ==
    rebalancedAgain.kind = "return" => rebalancedAgain.value = rebalanced.value

C13_Witness ==
    /\ rebalancedAgain.kind = "return"
    /\ Len(items) = 3
    /\ items[1].position > items[2].position
    /\ rebalancedAgain.value[1].id = 2

\* C14: detectRebalanceNeeded is true iff two items of the input lie closer
\* than REBALANCE_THRESHOLD (some adjacent pair of the sorted input), whatever
\* the input order; it is false for empty and singleton inputs.
C14_DetectIffCloseGap ==
    rebalanceNeeded.kind = "return"
    => /\ rebalanceNeeded.value =
              (\E i, j \in 1..Len(items) :
                   /\ i # j
                   /\ items[i].position <= items[j].position
                   /\ items[j].position - items[i].position < REBALANCE_THRESHOLD)
       /\ Len(items) <= 1 => rebalanceNeeded.value = FALSE

C14_Witness ==
    /\ rebalanceNeeded = Return(TRUE)
    /\ Len(items) = 3
    /\ items[1].position = POSITION_GAP + Fine
    /\ items[2].position = 2 * POSITION_GAP
    /\ items[3].position = POSITION_GAP

----------------------------------------------------------------------------
(* Further claims about updatePositionsForMove (SpecResolve) *)

\* C15: updatePositionsForMove fails with 'Item not found' and returns no
\* update when movedItemId is absent from the items, for every list and target.
C15_AbsentItemNotFound ==
    (ResolveDone /\ ~MovedPresent) => updates = Throw("Item not found")

C15_Witness ==
    /\ ResolveDone
    /\ Len(items) = 2
    /\ movedItemId = 3
    /\ updates = Throw("Item not found")

\* the slot is at an open end, or its neighbours are at least the threshold apart
SlotIsOpenOrWide ==
    LET p == SlotPrev(items, movedItemId, targetPosition)
        n == SlotNext(items, movedItemId, targetPosition)
    IN \/ p = Undefined
       \/ n = Undefined
       \/ n[1] - p[1] >= REBALANCE_THRESHOLD

\* C16: when the neighbours of the slot are at least REBALANCE_THRESHOLD apart
\* or the slot is at an open end, exactly one update is returned, for
\* movedItemId; no other item is rewritten.
C16_SingleUpdateForMoved ==
    (ResolveDone /\ MovedPresent /\ SlotIsOpenOrWide)
    => /\ updates.kind = "return"
       /\ Len(updates.value) = 1
       /\ updates.value[1].id = movedItemId

C16_Witness ==
    /\ ResolveDone
    /\ Len(items) = 3
    /\ movedItemId = 3
    /\ items[1].position = 2 * POSITION_GAP
    /\ items[2].position = POSITION_GAP
    /\ targetPosition = POSITION_GAP + Fine
    /\ updates = Return(<<[id |-> 3, position |-> POSITION_GAP + Half(POSITION_GAP)]>>)

\* C17: moving an item to its own current position is a no-op: for pairwise
\* distinct positions, updatePositionsForMove(items, x.id, x.position) returns
\* no update or updates that leave every item at its current position.
C17_MoveToOwnPositionIsNoOp ==
    (/\ ResolveDone
     /\ MovedPresent
     /\ DistinctPositions(items)
     /\ targetPosition = OldPositionOf(movedItemId))
    => /\ updates.kind = "return"
       /\ \A k \in 1..Len(updates.value) :
              updates.value[k].position = OldPositionOf(updates.value[k].id)

\* the other items sorted by position
Remainder ==
    SortByPosition(SelectSeq(items, LAMBDA item : item.id # movedItemId))

\* remainder[i]?.position, i counted from 0 as in the source
RemainderAt(i) ==
    IF 0 <= i /\ i < Len(Remainder) THEN Num(Remainder[i + 1].position) ELSE Undefined

\* the indices (from 0) of the remainder items below the target
BelowTarget == {i \in 0..(Len(Remainder) - 1) : Remainder[i + 1].position < targetPosition}

\* the largest of them
LargestBelow == CHOOSE i \in BelowTarget : \A j \in BelowTarget : j <= i

\* the call behaved as calculatePosition(previous, next) dictates
ResolvedWith(previous, next) ==
    LET r == calculatePosition(previous, next)
    IN IF r.kind = "return"
       THEN updates = Return(<<[id |-> movedItemId, position |-> r.value]>>)
       ELSE /\ updates.kind = "return"
            /\ Len(updates.value) = Len(items)

\* C18 as stated: the insertion index is the largest index i such that
\* remainder[i].position < targetPosition, and calculatePosition receives
\* previous = remainder[i-1] and next = remainder[i].
C18_NeighboursAtLargestBelow ==
    (ResolveDone /\ MovedPresent /\ BelowTarget # {})
    => ResolvedWith(RemainderAt(LargestBelow - 1), RemainderAt(LargestBelow))

\* C18 amended: the insertion index is one more than the largest index i such
\* that remainder[i].position < targetPosition (0 when there is none), and
\* calculatePosition receives previous = remainder[insertIndex - 1] and
\* next = remainder[insertIndex].
C18_NeighboursAfterLargestBelow ==
    (ResolveDone /\ MovedPresent)
    => LET insertIndex == IF BelowTarget = {} THEN 0 ELSE LargestBelow + 1
       IN ResolvedWith(RemainderAt(insertIndex - 1), RemainderAt(insertIndex))

C18_Witness ==
    /\ ResolveDone
    /\ Len(items) = 3
    /\ movedItemId = 1
    /\ items[2].position = 2 * POSITION_GAP
    /\ items[3].position = POSITION_GAP
    /\ targetPosition = POSITION_GAP + Fine
    /\ LargestBelow = 0
    /\ updates = Return(<<[id |-> 1, position |-> POSITION_GAP + Half(POSITION_GAP)]>>)

\* C19: for a container holding a single item, updatePositionsForMove with any
\* target returns no update or exactly one update, for that item, whose
\* position is valid (>= MIN_POSITION).
C19_SingletonStaysValid ==
    (ResolveDone /\ MovedPresent /\ Len(items) = 1)
    => /\ updates.kind = "return"
       /\ \/ updates.value = <<>>
          \/ /\ Len(updates.value) = 1
             /\ updates.value[1].id = movedItemId
             /\ validatePosition(updates.value[1].position)

C19_Witness ==
    /\ ResolveDone
    /\ Len(items) = 1
    /\ movedItemId = 1
    /\ items[1].position = 0
    /\ targetPosition = 3 * POSITION_GAP
    /\ updates = Return(<<[id |-> 1, position |-> POSITION_GAP]>>)

----------------------------------------------------------------------------
(* Claims about the move handler (SpecHandler) *)

\* C20: a cross-list transfer between two cards of the target list that are
\* closer than REBALANCE_THRESHOLD rebalances the target list and succeeds;
\* REBALANCE_REQUIRED is never surfaced to the API caller as an error.
C20_RebalanceNeverSurfaced ==
    response.kind = "response" => response.cause # "REBALANCE_REQUIRED"


\* the card of the last move request, as it is stored now
MovedCardNow == FindById(cards, movedCard[1].id)[1]

\* the last request was a move to another list and it succeeded
TransferDone ==
    /\ movedCard # <<>>
    /\ response = Ok
    /\ MovedCardNow.listId # movedCard[1].listId

\* C21: a cross-list transfer writes nothing in the source list: a step that
\* changes the listId of a card leaves every other card as it was, and the
\* store holds the same cards in the same order.
C21_TransferWritesOnlyMovedCard ==
    [][\A i \in 1..Len(cards) :
          cards'[i].listId # cards[i].listId
          => /\ Len(cards') = Len(cards)
             /\ cards'[i].id = cards[i].id
             /\ \A j \in 1..Len(cards) : j # i => cards'[j] = cards[j]]_vars

C21_Witness ==
    /\ TransferDone
    /\ movedCard[1] = [id |-> 3, listId |-> "listA", position |-> POSITION_GAP + Fine]
    /\ MovedCardNow.listId = "listB"
    /\ cards[1] = [id |-> 1, listId |-> "listA", position |-> 0]
    /\ cards[2] = [id |-> 2, listId |-> "listA", position |-> POSITION_GAP]

\* C22: a cross-list transfer to the head of a non-empty target list B gives
\* the moved card B[0].position / 2, strictly before every card of B; a
\* transfer to the tail gives last.position + POSITION_GAP, strictly after
\* every card of B.
C22_TransferHeadAndTail ==
    [][\A cardId \in RequestCardIds, targetListId \in RequestListIds,
          position \in RequestPositions :
          (/\ MoveCard(cardId, targetListId, position)
           /\ response' = Ok
           /\ FindById(cards, cardId)[1].listId # targetListId
           /\ FindInList(cards, targetListId) # <<>>)
          => LET B == SortByPosition(FindInList(cards, targetListId))
                 newPosition == FindById(cards', cardId)[1].position
             IN /\ position <= 0 =>
                    /\ newPosition = Half(B[1].position)
                    /\ \A k \in 1..Len(B) : newPosition < B[k].position
                /\ position >= Len(B) * One =>
                    /\ newPosition = B[Len(B)].position + POSITION_GAP
                    /\ \A k \in 1..Len(B) : newPosition > B[k].position]_vars

----------------------------------------------------------------------------
(* Claims about creation and moves over a store that starts empty (SpecApi) *)

\* C23: the first item placed into an empty container receives POSITION_GAP,
\* whether it arrives by createCard or createList, with or without a position
\* in the request, or by a transfer into an empty list: a step that makes an
\* empty list (an empty board) non-empty stores its item at POSITION_GAP.
C23_FirstItemAtGap ==
    [][/\ \A l \in ListIds :
              (FindInList(cards, l) = <<>> /\ FindInList(cards', l) # <<>>)
              => \A i \in 1..Len(FindInList(cards', l)) :
                     FindInList(cards', l)[i].position = POSITION_GAP
       /\ (boardLists = <<>> /\ boardLists' # <<>>)
              => boardLists'[1].position = POSITION_GAP]_vars

\* C27: creating a card or a list with an explicit position in a container
\* whose positions are pairwise distinct stores a position different from
\* the position of every item already in the container, for every
\* non-negative requested position.
C27_CreatedPositionIsFresh ==
    [][\A position \in CreatePositions \ {Undefined} :
          /\ \A listId \in ListIds :
                 (/\ CreateCard(listId, position)
                  /\ response' = Created
                  /\ DistinctPositions(FindInList(cards, listId)))
                 => \A i \in 1..Len(cards) :
                        cards[i].listId = listId
                        => cards[i].position # cards'[Len(cards')].position
          /\ (/\ CreateList(position)
              /\ response' = Created
              /\ DistinctPositions(boardLists))
             => \A i \in 1..Len(boardLists) :
                    boardLists[i].position # boardLists'[Len(boardLists')].position]_vars

\* C28: every position persisted by the API (createCard, createList, the
\* moves within a list and across lists, rebalance) satisfies
\* PositionValidator.validatePosition, after any sequence of validated
\* requests.
C28_PersistedPositionsValid ==
    /\ \A i \in 1..Len(cards) : validatePosition(cards[i].position)
    /\ \A i \in 1..Len(boardLists) : validatePosition(boardLists[i].position)

----------------------------------------------------------------------------
(* Further claims about rebalancePositions (SpecRebalance) *)

\* C29: the output of rebalancePositions passes the validators, for every
\* input: validatePositionOrder(output) is true, detectRebalanceNeeded(output)
\* is false and validatePosition holds for every output position.
C29_RebalancedPassesValidators ==
    rebalanced.kind = "return"
    => /\ validatePositionOrder(rebalanced.value)
       /\ ~detectRebalanceNeeded(rebalanced.value)
       /\ \A k \in 1..Len(rebalanced.value) :
              validatePosition(rebalanced.value[k].position)

C29_Witness ==
    /\ rebalanced.kind = "return"
    /\ Len(items) = 3
    /\ ~validatePositionOrder(items)
    /\ detectRebalanceNeeded(items)
    /\ ~validatePosition(items[2].position)
    /\ rebalanced.value[1].id = 2
    /\ rebalanced.value[3].position = 3 * POSITION_GAP

----------------------------------------------------------------------------
(* Further claims about the move handler (SpecHandler) *)

\* C24: a move whose target position is non-finite or below the floor is
\* rejected with an error before any position is computed or written; it is
\* never repaired into a head or tail insertion.
C24_InvalidTargetRejected ==
    [][\A cardId \in RequestCardIds, targetListId \in RequestListIds,
          position \in RequestPositions :
          (/\ MoveCard(cardId, targetListId, position)
           /\ (position = Infinity \/ position < 0))
          => /\ response'.status = 400
             /\ cards' = cards]_vars

----------------------------------------------------------------------------
(* Claims about concurrent moves (SpecConcurrent) *)

\* the request has read the cards of its list and has not written its last
\* update yet
InCycle(p) == calls[p].pc = "write"

\* the request is applying a rebalance and has written some of its updates,
\* not all
MidRebalance(p) ==
    /\ calls[p].pc = "write"
    /\ calls[p].total > 1
    /\ Len(calls[p].pending) < calls[p].total

AllDone == \A p \in Callers : calls[p].pc = "done"

\* C25: the read-compute-write cycle of a move is exclusive per list: two
\* concurrent move requests on the same list are never both between reading
\* the list's cards and writing their last position, and once both are served
\* no two cards of a list share a position.
C25_MoveCycleExclusive ==
    /\ \A p, q \in Callers :
           (p # q /\ InCycle(p) /\ InCycle(q))
           => calls[p].card[1].listId # calls[q].card[1].listId
    /\ AllDone => \A l \in ListIds : DistinctPositions(ListOf(cards, l))

\* C26: the update set of a rebalance is applied atomically: no concurrent
\* request reads the cards of a list while another request has written only
\* some of the rebalanced positions of that list.
C26_RebalanceAppliedAtomically ==
    [][\A q \in Callers :
          (calls[q].pc = "found" /\ calls'[q].pc = "write")
          => \A p \in Callers \ {q} :
                 MidRebalance(p) => calls[p].card[1].listId # calls[q].card[1].listId]_vars

\* C30: a move request that ends in an error changes no stored position: when
\* the handler fails (card or list not found, validation error, lists on
\* different boards, REBALANCE_REQUIRED raised in moveCardBetweenLists), the
\* card keeps its listId and position and every other card keeps its position.
C30_FailedMoveChangesNothing ==
    [][(response'.kind = "response" /\ response'.status # 200)
       => cards' = cards]_vars

C30_Witness ==
    /\ response = InternalError("REBALANCE_REQUIRED")
    /\ movedCard # <<>>
    /\ movedCard[1].listId = "listB"
    /\ MovedCardNow = movedCard[1]
    /\ cards[1] = [id |-> 1, listId |-> "listA", position |-> POSITION_GAP]
    /\ cards[2] = [id |-> 2, listId |-> "listA", position |-> POSITION_GAP + Fine]

====
